---- MODULE Spec2Model ----
(***************************************************************************)
(* Model of the task management engine of the Todo CLI (src/main.py):      *)
(* Task, TodoStorage (load_tasks / save_tasks on DATA_FILE) and            *)
(* TodoManager (add_task, get_task_by_id, update_task, delete_task,        *)
(* mark_completed).                                                        *)
(*                                                                         *)
(* Optional values (Python None) are modelled as sets: None is {} and a    *)
(* present value v is {v}.  Timestamps (ISO strings produced by            *)
(* datetime.now().isoformat()) are modelled as the clock readings 1..      *)
(***************************************************************************)
EXTENDS Integers, Sequences, FiniteSets, TLC

VARIABLES
    tasks,        \* TodoManager.tasks: the in-memory list of Task objects
    file,         \* contents of DATA_FILE
    op,           \* the Manager call that ran last: its name, what it returned (ret)
                  \* or raised (error), and the outcome of its save ("none": no save)
    lastSaved,    \* history: contents DATA_FILE had after the last save that returned True
    maxAssigned,  \* history: greatest ID add_task has assigned on this Manager (0: none);
                  \* kept by the specification about IDs
    faults,       \* history: number of saves that failed
    race          \* two processes on one DATA_FILE: where each is (pc), the
                  \* self.tasks of its Manager (mem) and which wrote last (last);
                  \* kept by the specification about concurrent invocations

vars == <<tasks, file, op, lastSaved, maxAssigned, faults, race>>

-----------------------------------------------------------------------------
(* Bounds of the model                                                     *)

\* tasks in the collection, in the specification about IDs
MaxTasks == 3

\* tasks in the collection, in the specifications about fields and about I/O
MaxFew == 2

\* saves that fail in one run
MaxFaults == 1

-----------------------------------------------------------------------------
(* Optional values                                                         *)

None == {}

Some(v) == {v}

Get(o) == CHOOSE v \in o : TRUE

Max(S) == CHOOSE m \in S : \A x \in S : x <= m

\* a value read from a hand-edited DATA_FILE that is neither null nor a
\* number (a JSON string, say): Python orders it with no int.  It is told
\* from None and from every Some(v) by having two elements
NonNumber == {0, 1}

-----------------------------------------------------------------------------
(* Priority and Status enums: member names in memory, .value in the file   *)

Priority == {"LOW", "MEDIUM", "HIGH"}

Status == {"PENDING", "IN_PROGRESS", "COMPLETED"}

PriorityValue(p) ==
    CASE p = "LOW" -> "low"
      [] p = "MEDIUM" -> "medium"
      [] p = "HIGH" -> "high"

StatusValue(s) ==
    CASE s = "PENDING" -> "pending"
      [] s = "IN_PROGRESS" -> "in_progress"
      [] s = "COMPLETED" -> "completed"

PriorityValues == {PriorityValue(p) : p \in Priority}

StatusValues == {StatusValue(s) : s \in Status}

\* Priority(token): the member whose value is the token (ValueError otherwise,
\* which the callers test with token \in PriorityValues first)
PriorityOf(v) == CHOOSE p \in Priority : PriorityValue(p) = v

StatusOf(v) == CHOOSE s \in Status : StatusValue(s) = v

-----------------------------------------------------------------------------
(* Input sets                                                              *)

Titles == {"", "a"}

Times == {1, 2}

\* outcomes of TodoStorage.save_tasks: it returns True, open() raises (the file
\* is untouched), or the write raises after open(..., "w") truncated the file
IoOutcomes == {"ok", "open_failed", "write_failed"}

-----------------------------------------------------------------------------
(* Task                                                                    *)

Task(title, description, priority, status, created_at, completed_at, task_id) ==
    [task_id |-> task_id, title |-> title, description |-> description,
     priority |-> priority, status |-> status,
     created_at |-> created_at, completed_at |-> completed_at]

\* a slip: the completion time left out of the record
to_dict_drops_completed_at(t) ==
    [task_id |-> t.task_id, title |-> Some(t.title),
     description |-> Some(t.description),
     priority |-> Some(PriorityValue(t.priority)),
     status |-> Some(StatusValue(t.status)),
     created_at |-> Some(t.created_at), completed_at |-> None]

to_dict(t) ==
    [task_id |-> t.task_id, title |-> Some(t.title),
     description |-> Some(t.description),
     priority |-> Some(PriorityValue(t.priority)),
     status |-> Some(StatusValue(t.status)),
     created_at |-> Some(t.created_at), completed_at |-> t.completed_at]

\* from_dict raises KeyError without a title, ValueError on an unknown token
from_dict_raises(d) ==
    \/ d.title = None
    \/ (d.priority # None /\ Get(d.priority) \notin PriorityValues)
    \/ (d.status # None /\ Get(d.status) \notin StatusValues)

from_dict(d, now) ==
    Task(Get(d.title),
         IF d.description = None THEN "" ELSE Get(d.description),
         IF d.priority = None THEN "MEDIUM" ELSE PriorityOf(Get(d.priority)),
         IF d.status = None THEN "PENDING" ELSE StatusOf(Get(d.status)),
         IF d.created_at = None THEN now ELSE Get(d.created_at),
         d.completed_at,
         d.task_id)

\* a slip: the status set, the completion time not taken
mark_completed_untimed(t, now) ==
    [t EXCEPT !.status = "COMPLETED"]

mark_completed_task(t, now) ==
    [t EXCEPT !.status = "COMPLETED", !.completed_at = Some(now)]

\* a slip: the completion time kept when the task goes back to in progress
mark_in_progress_keeps(t) ==
    [t EXCEPT !.status = "IN_PROGRESS"]

mark_in_progress(t) ==
    [t EXCEPT !.status = "IN_PROGRESS", !.completed_at = None]


-----------------------------------------------------------------------------
(* TodoStorage: DATA_FILE is absent, holds a JSON list of task records, or *)
(* holds the unparseable remains of a write that failed.                   *)

Absent == [kind |-> "absent", data |-> <<>>]

Json(dicts) == [kind |-> "json", data |-> dicts]

Truncated == [kind |-> "truncated", data |-> <<>>]

\* load_tasks: [] when the file is missing, unparseable, or any record raises;
\* nows[i] is the clock reading Task.__init__ takes for record i
load_tasks(f, nows) ==
    IF f.kind # "json" THEN <<>>
    ELSE IF \E i \in 1..Len(f.data) : from_dict_raises(f.data[i]) THEN <<>>
    ELSE [i \in 1..Len(f.data) |-> from_dict(f.data[i], nows[i])]

\* DATA_FILE after two writes that overlapped: the start of one JSON text
\* followed by the end of a longer one, which json.load rejects
Garbled == [kind |-> "garbled", data |-> <<>>]

\* characters json.dump(..., indent=2) writes for one record: 145 for the
\* keys, quotes, punctuation and indentation, 1 for the ID, 26 for the ISO
\* time created_at, 4 for null or 28 for a quoted ISO time completed_at
RecSize(d) ==
    145 + 1 + 26 + Len(Get(d.title)) + Len(Get(d.description))
        + Len(Get(d.priority)) + Len(Get(d.status))
        + (IF d.completed_at = None THEN 4 ELSE 28)

RECURSIVE JsonSize(_)
\* characters of the whole text: "[]", or the brackets and line ends around
\* the records and ",\n" between them
JsonSize(dicts) ==
    IF dicts = <<>> THEN 2
    ELSE IF Len(dicts) = 1 THEN 4 + RecSize(dicts[1])
    ELSE RecSize(Head(dicts)) + 2 + JsonSize(Tail(dicts))

\* open(DATA_FILE, "w"): the file cut to length 0
opened_for_write(f) == Truncated

\* json.dump and close on a file opened earlier: the text goes to offset 0
\* of what the file holds by then.  Text another process wrote since the
\* open stays beyond the end of this text when it is longer
written_over(f, ts) ==
    LET task_data == [i \in 1..Len(ts) |-> to_dict(ts[i])]
    IN  IF f.kind = "json" /\ JsonSize(f.data) > JsonSize(task_data)
        THEN Garbled
        ELSE Json(task_data)

\* a slip: the records appended to the file's, not replacing them
save_tasks_append(ts, f, io) ==
    LET task_data == [i \in 1..Len(ts) |-> to_dict(ts[i])]
    IN  CASE io = "ok" -> Json(f.data \o task_data)
          [] io = "open_failed" -> f
          [] io = "write_failed" -> Truncated

\* save_tasks: the file it leaves; io is the outcome of the I/O.  A write that
\* raises after open(..., "w") truncated the file leaves it empty or with a
\* prefix of the JSON text: unparseable either way
save_tasks(ts, f, io) ==
    LET task_data == [i \in 1..Len(ts) |-> to_dict(ts[i])]
    IN  CASE io = "ok" -> Json(task_data)
          [] io = "open_failed" -> f
          [] io = "write_failed" -> Truncated

\* the value save_tasks returns
save_returns(io) == io = "ok"

-----------------------------------------------------------------------------
(* TodoManager                                                             *)

RECURSIVE assign_from(_, _, _)
\* second loop of _assign_task_ids, from position i with running maximum max_id
assign_from(ts, i, max_id) ==
    IF i > Len(ts) THEN ts
    ELSE IF ts[i].task_id = None
         THEN assign_from([ts EXCEPT ![i].task_id = Some(max_id + 1)], i + 1, max_id + 1)
         ELSE assign_from(ts, i + 1, max_id)

\* first loop of _assign_task_ids: max(max_id, task.task_id) raises TypeError
\* on an ID that is not a number
assign_raises(ts) == \E i \in 1..Len(ts) : ts[i].task_id = NonNumber

\* a slip: the running maximum started at 0, the present IDs not looked at
assign_ids_from_zero(ts) == assign_from(ts, 1, 0)

_assign_task_ids(ts) ==
    LET present == {Get(ts[i].task_id) : i \in {j \in 1..Len(ts) : ts[j].task_id # None}}
        max_id == Max(present \cup {0})
    IN  assign_from(ts, 1, max_id)

\* TodoManager.__init__
Manager(f, nows) == _assign_task_ids(load_tasks(f, nows))

\* TodoManager.__init__ raises what _assign_task_ids raises: nothing catches it
Manager_raises(f, nows) == assign_raises(load_tasks(f, nows))

\* the IDs max() ranges over in _get_next_id: those that are truthy
TruthyIds(ts) ==
    {Get(ts[i].task_id) : i \in {j \in 1..Len(ts) : ts[j].task_id # None /\ ts[j].task_id # {0}}}

\* _get_next_id raises ValueError when max() gets no ID at all
next_id_raises(ts) == ts # <<>> /\ TruthyIds(ts) = {}

\* a slip: the next ID taken from the number of tasks
next_id_by_count(ts) == Len(ts) + 1

\* a slip: the next ID taken from the task stored last
next_id_after_last(ts) ==
    IF ts = <<>> THEN 1 ELSE Get(ts[Len(ts)].task_id) + 1

\* a slip: the greatest ID handed out again, the + 1 forgotten
next_id_without_increment(ts) ==
    IF ts = <<>> THEN 1 ELSE Max(TruthyIds(ts))

_get_next_id(ts) ==
    IF ts = <<>> THEN 1 ELSE Max(TruthyIds(ts)) + 1

RECURSIVE matching(_, _)
\* [task for task in self.tasks if task.status == status_filter]
matching(ts, status) ==
    IF ts = <<>> THEN <<>>
    ELSE (IF Head(ts).status = status THEN <<Head(ts)>> ELSE <<>>)
             \o matching(Tail(ts), status)

\* position of the first task with this ID, 0 when there is none
IndexOf(ts, task_id) ==
    IF \E i \in 1..Len(ts) : ts[i].task_id = Some(task_id)
    THEN CHOOSE i \in 1..Len(ts) :
             /\ ts[i].task_id = Some(task_id)
             /\ \A j \in 1..(i - 1) : ts[j].task_id # Some(task_id)
    ELSE 0

get_task_by_id(ts, task_id) ==
    IF IndexOf(ts, task_id) = 0 THEN None ELSE Some(ts[IndexOf(ts, task_id)])

\* a slip: the last task taken off the list, not the one found
remove_last(ts, i) ==
    [j \in 1..(Len(ts) - 1) |-> ts[j]]

\* list.remove of the task found: the list without position i
RemoveAt(ts, i) ==
    [j \in 1..(Len(ts) - 1) |-> IF j < i THEN ts[j] ELSE ts[j + 1]]

\* a slip: an omitted description taken as the default "", not as "leave alone"
apply_update_defaults(t, title, description, priority, status, now) ==
    LET t1 == IF title # None THEN [t EXCEPT !.title = Get(title)] ELSE t
        t2 == [t1 EXCEPT !.description = IF description # None THEN Get(description) ELSE ""]
        t3 == IF priority # None THEN [t2 EXCEPT !.priority = Get(priority)] ELSE t2
        t4 == IF status # None THEN [t3 EXCEPT !.status = Get(status)] ELSE t3
    IN  IF status = Some("COMPLETED") THEN mark_completed_task(t4, now)
        ELSE IF status = Some("IN_PROGRESS") THEN mark_in_progress(t4)
        ELSE t4

\* a slip: the completion time cleared whenever the new status is not completed
apply_update_clears(t, title, description, priority, status, now) ==
    LET t1 == IF title # None THEN [t EXCEPT !.title = Get(title)] ELSE t
        t2 == IF description # None THEN [t1 EXCEPT !.description = Get(description)] ELSE t1
        t3 == IF priority # None THEN [t2 EXCEPT !.priority = Get(priority)] ELSE t2
        t4 == IF status # None THEN [t3 EXCEPT !.status = Get(status)] ELSE t3
    IN  IF status = Some("COMPLETED") THEN mark_completed_task(t4, now)
        ELSE IF status # None THEN [t4 EXCEPT !.completed_at = None]
        ELSE t4

\* the field assignments of update_task on the task found (lines 321-333)
apply_update(t, title, description, priority, status, now) ==
    LET t1 == IF title # None THEN [t EXCEPT !.title = Get(title)] ELSE t
        t2 == IF description # None THEN [t1 EXCEPT !.description = Get(description)] ELSE t1
        t3 == IF priority # None THEN [t2 EXCEPT !.priority = Get(priority)] ELSE t2
        t4 == IF status # None THEN [t3 EXCEPT !.status = Get(status)] ELSE t3
    IN  IF status = Some("COMPLETED") THEN mark_completed_task(t4, now)
        ELSE IF status = Some("IN_PROGRESS") THEN mark_in_progress(t4)
        ELSE t4


-----------------------------------------------------------------------------
(* The Manager's calls as actions.  Every mutating call ends in            *)
(* _save_tasks, whose result the Manager drops.                            *)

\* _save_tasks(): TodoStorage.save_tasks(self.tasks), result ignored
Save(ts, io) ==
    /\ io # "ok" => faults < MaxFaults
    /\ file' = save_tasks(ts, file, io)
    /\ lastSaved' = IF save_returns(io) THEN file' ELSE lastSaved
    /\ faults' = IF save_returns(io) THEN faults ELSE faults + 1

NoSave == UNCHANGED <<file, lastSaved, faults>>

\* a slip: the new task put at the head of the list
add_task_prepends(title, description, priority, now, io) ==
    IF next_id_raises(tasks)
    THEN /\ op' = [name |-> "add", ret |-> None, error |-> "ValueError", save |-> "none"]
         /\ UNCHANGED tasks
         /\ NoSave
    ELSE LET task == Task(title, description, priority, "PENDING", now, None,
                          Some(_get_next_id(tasks)))
         IN  /\ tasks' = <<task>> \o tasks
             /\ Save(tasks', io)
             /\ op' = [name |-> "add", ret |-> task, error |-> "none", save |-> io]

add_task(title, description, priority, now, io) ==
    IF next_id_raises(tasks)
    THEN /\ op' = [name |-> "add", ret |-> None, error |-> "ValueError", save |-> "none"]
         /\ UNCHANGED tasks
         /\ NoSave
    ELSE LET task == Task(title, description, priority, "PENDING", now, None,
                          Some(_get_next_id(tasks)))
         IN  /\ tasks' = Append(tasks, task)
             /\ Save(tasks', io)
             /\ op' = [name |-> "add", ret |-> task, error |-> "none", save |-> io]

get_task(task_id) ==
    /\ op' = [name |-> "get", ret |-> get_task_by_id(tasks, task_id), error |-> "none", save |-> "none"]
    /\ UNCHANGED tasks
    /\ NoSave

\* a slip: without a filter the Manager's own list handed out, not a copy
get_tasks_returns_self(status_filter) ==
    /\ op' = [name |-> "get_all",
              ret |-> IF status_filter = None
                      THEN [list |-> tasks, same_object |-> TRUE]
                      ELSE [list |-> matching(tasks, Get(status_filter)),
                            same_object |-> FALSE],
              error |-> "none", save |-> "none"]
    /\ UNCHANGED tasks
    /\ NoSave

\* get_tasks: the list returned is a new list object in both branches
\* (self.tasks.copy(), a list comprehension), never self.tasks itself
get_tasks(status_filter) ==
    /\ op' = [name |-> "get_all",
              ret |-> IF status_filter = None
                      THEN [list |-> tasks, same_object |-> FALSE]
                      ELSE [list |-> matching(tasks, Get(status_filter)),
                            same_object |-> FALSE],
              error |-> "none", save |-> "none"]
    /\ UNCHANGED tasks
    /\ NoSave

\* the caller pops the last element off the list get_tasks returned: an
\* in-place change of that list object, seen through every name it has
caller_pops ==
    /\ op.name \in {"get_all", "caller_pop"}
    /\ op.ret.list # <<>>
    /\ op' = [op EXCEPT !.name = "caller_pop",
                        !.ret.list = SubSeq(@, 1, Len(@) - 1)]
    /\ tasks' = IF op.ret.same_object THEN op'.ret.list ELSE tasks
    /\ NoSave

\* a slip: the save made before the lookup decides, so also for an unknown ID
update_as_saves_first(name, task_id, title, description, priority, status, now, io) ==
    LET i == IndexOf(tasks, task_id)
    IN  IF i = 0
        THEN /\ op' = [name |-> name, ret |-> FALSE, error |-> "none", save |-> io]
             /\ UNCHANGED tasks
             /\ Save(tasks', io)
        ELSE /\ tasks' = [tasks EXCEPT
                            ![i] = apply_update(@, title, description, priority, status, now)]
             /\ Save(tasks', io)
             /\ op' = [name |-> name, ret |-> TRUE, error |-> "none", save |-> io]

\* a slip: the result of the save handed back as the call's result
update_as_reports_save(name, task_id, title, description, priority, status, now, io) ==
    LET i == IndexOf(tasks, task_id)
    IN  IF i = 0
        THEN /\ op' = [name |-> name, ret |-> FALSE, error |-> "none", save |-> "none"]
             /\ UNCHANGED tasks
             /\ NoSave
        ELSE /\ tasks' = [tasks EXCEPT
                            ![i] = apply_update(@, title, description, priority, status, now)]
             /\ Save(tasks', io)
             /\ op' = [name |-> name, ret |-> save_returns(io), error |-> "none", save |-> io]

\* update_task, under the name of the call that reached it
update_as(name, task_id, title, description, priority, status, now, io) ==
    LET i == IndexOf(tasks, task_id)
    IN  IF i = 0
        THEN /\ op' = [name |-> name, ret |-> FALSE, error |-> "none", save |-> "none"]
             /\ UNCHANGED tasks
             /\ NoSave
        ELSE /\ tasks' = [tasks EXCEPT
                            ![i] = apply_update(@, title, description, priority, status, now)]
             /\ Save(tasks', io)
             /\ op' = [name |-> name, ret |-> TRUE, error |-> "none", save |-> io]

update_task(task_id, title, description, priority, status, now, io) ==
    update_as("update", task_id, title, description, priority, status, now, io)

\* a slip: mark_completed done on the task in memory, the save left out
mark_completed_unsaved(task_id, now, io) ==
    LET i == IndexOf(tasks, task_id)
    IN  /\ op' = [name |-> "mark_completed", ret |-> i # 0, error |-> "none",
                  save |-> "none"]
        /\ tasks' = IF i = 0 THEN tasks
                    ELSE [tasks EXCEPT ![i] = mark_completed_task(@, now)]
        /\ NoSave

mark_completed(task_id, now, io) ==
    update_as("mark_completed", task_id, None, None, None, Some("COMPLETED"), now, io)

delete_task(task_id, io) ==
    LET i == IndexOf(tasks, task_id)
    IN  IF i = 0
        THEN /\ op' = [name |-> "delete", ret |-> FALSE, error |-> "none", save |-> "none"]
             /\ UNCHANGED tasks
             /\ NoSave
        ELSE /\ tasks' = RemoveAt(tasks, i)
             /\ Save(tasks', io)
             /\ op' = [name |-> "delete", ret |-> TRUE, error |-> "none", save |-> io]


RECURSIVE clear_loop_stops_early(_, _, _, _)
\* a slip: the loop left after the first task it deleted
clear_loop_stops_early(ts, completed_tasks, calls, deleted_count) ==
    IF completed_tasks = <<>>
    THEN [tasks |-> ts, calls |-> calls, deleted_count |-> deleted_count]
    ELSE LET i == IndexOf(ts, Get(Head(completed_tasks).task_id))
         IN  IF i = 0
             THEN clear_loop_stops_early(ts, Tail(completed_tasks), calls + 1, deleted_count)
             ELSE [tasks |-> RemoveAt(ts, i), calls |-> calls + 1,
                   deleted_count |-> deleted_count + 1]

RECURSIVE clear_loop(_, _, _, _)
\* the loop of the clear command: delete_task(task.task_id) for each task of
\* the list get_tasks(Status.COMPLETED) returned, counting the calls that
\* returned True; ts is self.tasks as the deletes leave it
clear_loop(ts, completed_tasks, calls, deleted_count) ==
    IF completed_tasks = <<>>
    THEN [tasks |-> ts, calls |-> calls, deleted_count |-> deleted_count]
    ELSE LET i == IndexOf(ts, Get(Head(completed_tasks).task_id))
         IN  IF i = 0
             THEN clear_loop(ts, Tail(completed_tasks), calls + 1, deleted_count)
             ELSE clear_loop(RemoveAt(ts, i), Tail(completed_tasks), calls + 1,
                             deleted_count + 1)

\* the clear command: nothing to clear, or the user declines, or the loop;
\* every delete_task that found its task saved, the last save is what the
\* file keeps
clear_completed(confirmed) ==
    LET completed_tasks == matching(tasks, "COMPLETED")
        done == clear_loop(tasks, completed_tasks, 0, 0)
    IN  IF completed_tasks = <<>> \/ ~confirmed
        THEN /\ op' = [name |-> "clear",
                       ret |-> [found |-> Len(completed_tasks), confirmed |-> confirmed,
                                calls |-> 0, deleted_count |-> 0],
                       error |-> "none", save |-> "none"]
             /\ UNCHANGED tasks
             /\ NoSave
        ELSE /\ tasks' = done.tasks
             /\ IF done.deleted_count > 0 THEN Save(tasks', "ok") ELSE NoSave
             /\ op' = [name |-> "clear",
                       ret |-> [found |-> Len(completed_tasks), confirmed |-> confirmed,
                                calls |-> done.calls,
                                deleted_count |-> done.deleted_count],
                       error |-> "none",
                       save |-> IF done.deleted_count > 0 THEN "ok" ELSE "none"]

-----------------------------------------------------------------------------
(* Callers.  A profile names the input sets a specification draws the      *)
(* calls' arguments from, the initial contents of DATA_FILE, the outcomes  *)
(* of the I/O and the cap on the collection's size.                        *)

Opt(S) == {None} \cup {Some(v) : v \in S}

\* the IDs callers ask for; the model stops adding beyond them
Ids(p) == p.ids

\* clock readings a call with this status can take: it reads the clock only
\* in mark_completed
Clock(status, p) == IF status = Some("COMPLETED") THEN p.times ELSE {1}

\* a record of DATA_FILE as save_tasks writes it
Rec(task_id, title, status, completed_at) ==
    [task_id |-> task_id, title |-> Some(title), description |-> Some(""),
     priority |-> Some("medium"), status |-> Some(status),
     created_at |-> Some(1), completed_at |-> completed_at]

\* first run, an emptied list, IDs with a gap and out of order, a record
\* without an ID (legacy data), an ID following a gap
FilesIds ==
    {Absent, Json(<<>>),
     Json(<<Rec(Some(3), "a", "pending", None), Rec(Some(1), "a", "completed", Some(1))>>),
     Json(<<Rec(None, "a", "pending", None), Rec(Some(2), "a", "pending", None)>>),
     Json(<<Rec(Some(2), "a", "in_progress", None)>>)}

FilesEmpty == {Absent, Json(<<>>)}

\* a record of a legacy or hand-edited DATA_FILE holding the title only; a
\* field that is None is a key the record lacks
Bare(title) ==
    [task_id |-> None, title |-> title, description |-> None, priority |-> None,
     status |-> None, created_at |-> None, completed_at |-> None]

\* files load_tasks gives up on: missing, unparseable, a record without a
\* title, with an unknown priority token, with an unknown status token
FilesMalformed ==
    {Absent, Truncated,
     Json(<<Rec(Some(1), "a", "pending", None), Bare(None)>>),
     Json(<<[Rec(Some(1), "a", "pending", None) EXCEPT !.priority = Some("urgent")]>>),
     Json(<<Rec(Some(1), "a", "pending", None), Rec(Some(2), "a", "done", None)>>)}

\* files with records that lack an ID: before a present one, around it, two
\* and no present ID, after a gap, a single one; and files where none lacks it
FilesBackfill ==
    {Json(<<Rec(None, "a", "pending", None), Rec(Some(2), "a", "pending", None)>>),
     Json(<<Bare(Some("a")), Rec(Some(2), "a", "completed", Some(1)), Bare(Some("a"))>>),
     Json(<<Bare(Some("a")), Bare(Some("a"))>>),
     Json(<<Rec(Some(3), "a", "pending", None), Rec(None, "a", "pending", None),
            Rec(Some(1), "a", "pending", None)>>),
     Json(<<Bare(Some("a"))>>),
     Json(<<>>),
     Json(<<Rec(Some(2), "a", "pending", None), Rec(Some(1), "a", "pending", None)>>)}

\* a hand-edited file whose second record has a string for its ID
FilesNonNumber ==
    {Json(<<Rec(Some(1), "a", "pending", None),
            [Rec(None, "a", "pending", None) EXCEPT !.task_id = NonNumber]>>)}

FilesLoad == FilesMalformed \cup FilesBackfill \cup FilesNonNumber

FilesFew == {Absent, Json(<<>>), Json(<<Rec(Some(2), "a", "pending", None)>>)}

IdsProfile ==
    [titles |-> {"a"}, descriptions |-> {""}, priorities |-> {"MEDIUM"},
     new_titles |-> {None}, new_descriptions |-> {None}, new_priorities |-> {None},
     new_statuses |-> Opt(Status), times |-> {1}, io |-> {"ok"},
     files |-> FilesIds, cap |-> MaxTasks, ids |-> 1..(MaxTasks + 1),
     history |-> TRUE]

StatusProfile ==
    [titles |-> {"a"}, descriptions |-> {""}, priorities |-> {"MEDIUM"},
     new_titles |-> {None}, new_descriptions |-> {None}, new_priorities |-> {None},
     new_statuses |-> Opt(Status), times |-> Times, io |-> {"ok"},
     files |-> FilesEmpty, cap |-> MaxFew, ids |-> 1..(MaxFew + 1), history |-> FALSE]

FieldsProfile ==
    [titles |-> {"a"}, descriptions |-> {""}, priorities |-> {"MEDIUM"},
     new_titles |-> Opt({"b"}), new_descriptions |-> Opt({"d"}),
     new_priorities |-> Opt({"HIGH"}), new_statuses |-> Opt({"IN_PROGRESS"}),
     times |-> {1}, io |-> {"ok"}, files |-> FilesEmpty, cap |-> MaxFew,
     ids |-> 1..MaxFew, history |-> FALSE]

IoProfile ==
    [titles |-> Titles, descriptions |-> {""}, priorities |-> {"MEDIUM"},
     new_titles |-> Opt({"a"}), new_descriptions |-> {None}, new_priorities |-> {None},
     new_statuses |-> {None}, times |-> {1}, io |-> IoOutcomes,
     files |-> FilesFew, cap |-> MaxFew, ids |-> 1..MaxFew, history |-> FALSE]

\* callers that only add, to a collection that starts empty: first run, an
\* emptied list, a file load_tasks gives up on
AddsProfile ==
    [titles |-> Titles, descriptions |-> {""}, priorities |-> Priority,
     new_titles |-> {None}, new_descriptions |-> {None}, new_priorities |-> {None},
     new_statuses |-> {None}, times |-> {1}, io |-> {"ok"},
     files |-> FilesEmpty \cup {Truncated}, cap |-> MaxTasks, ids |-> 1..MaxTasks,
     history |-> FALSE]

\* callers that complete tasks and clear them, on a collection that starts
\* empty or loaded out of order
ClearProfile ==
    [titles |-> {"a"}, descriptions |-> {""}, priorities |-> {"MEDIUM"},
     new_titles |-> {None}, new_descriptions |-> {None}, new_priorities |-> {None},
     new_statuses |-> Opt(Status) \ {None}, times |-> {1}, io |-> {"ok"},
     files |-> FilesEmpty \cup
               {Json(<<Rec(Some(3), "a", "completed", Some(1)),
                       Rec(Some(1), "a", "pending", None)>>)},
     cap |-> MaxTasks, ids |-> 1..(MaxTasks + 1), history |-> FALSE]

FilterProfile ==
    [titles |-> {"a"}, descriptions |-> {""}, priorities |-> {"MEDIUM"},
     new_titles |-> {None}, new_descriptions |-> {None}, new_priorities |-> {None},
     new_statuses |-> Opt(Status) \ {None}, filters |-> Opt(Status),
     times |-> {1}, io |-> {"ok"}, files |-> FilesEmpty, cap |-> MaxTasks,
     ids |-> 1..MaxTasks, history |-> FALSE]

LoadProfile ==
    [titles |-> {"a"}, descriptions |-> {""}, priorities |-> {"MEDIUM"},
     new_titles |-> Opt({"b"}), new_descriptions |-> {None}, new_priorities |-> {None},
     new_statuses |-> {None}, times |-> {1}, io |-> {"ok"},
     files |-> FilesLoad, cap |-> MaxTasks, ids |-> 1..(MaxTasks + 1),
     history |-> FALSE]

\* the model stops adding at the cap and beyond the IDs callers ask for
MayAdd(p) ==
    /\ Len(tasks) < p.cap
    /\ next_id_raises(tasks) \/ _get_next_id(tasks) \in Ids(p)

AddTask(p) ==
    \E title \in p.titles, description \in p.descriptions, priority \in p.priorities,
       now \in p.times, io \in p.io :
        /\ MayAdd(p)
        /\ add_task(title, description, priority, now, io)
        /\ maxAssigned' = IF p.history /\ ~next_id_raises(tasks)
                           THEN Max({maxAssigned, Get(op'.ret.task_id)})
                           ELSE maxAssigned
        /\ UNCHANGED race

GetTask(p) ==
    /\ \E task_id \in Ids(p) : get_task(task_id)
    /\ UNCHANGED <<maxAssigned, race>>

UpdateTask(p) ==
    \E task_id \in Ids(p), title \in p.new_titles, description \in p.new_descriptions,
       priority \in p.new_priorities, status \in p.new_statuses, io \in p.io :
        \E now \in Clock(status, p) :
            /\ update_task(task_id, title, description, priority, status, now, io)
            /\ UNCHANGED <<maxAssigned, race>>

MarkCompleted(p) ==
    \E task_id \in Ids(p), now \in p.times, io \in p.io :
        mark_completed(task_id, now, io) /\ UNCHANGED <<maxAssigned, race>>

DeleteTask(p) ==
    \E task_id \in Ids(p), io \in p.io :
        delete_task(task_id, io) /\ UNCHANGED <<maxAssigned, race>>

GetTasks(p) ==
    /\ \E status_filter \in p.filters : get_tasks(status_filter)
    /\ UNCHANGED <<maxAssigned, race>>

ClearCompleted ==
    /\ \E confirmed \in BOOLEAN : clear_completed(confirmed)
    /\ UNCHANGED <<maxAssigned, race>>

CallerPops ==
    caller_pops /\ UNCHANGED <<maxAssigned, race>>

\* one process, one Manager
NoRace == [pc |-> <<>>, mem |-> <<>>, last |-> 0]

\* the state after TodoManager.__init__: load_tasks, then _assign_task_ids
InitOn(p) ==
    \E f \in p.files :
        \E nows \in [1..Len(f.data) -> p.times] :
            /\ file = f
            /\ tasks = IF Manager_raises(f, nows) THEN <<>> ELSE Manager(f, nows)
            /\ op = [name |-> "init", ret |-> ~Manager_raises(f, nows),
                     error |-> IF Manager_raises(f, nows) THEN "TypeError" ELSE "none",
                     save |-> "none"]
            /\ lastSaved = f
            /\ maxAssigned = 0
            /\ faults = 0
            /\ race = NoRace

NextOn(p) ==
    \/ AddTask(p)
    \/ GetTask(p)
    \/ UpdateTask(p)
    \/ MarkCompleted(p)
    \/ DeleteTask(p)

Init == InitOn(StatusProfile)

Next == NextOn(StatusProfile)

\* statuses and timestamps, few tasks
Spec == Init /\ [][Next]_vars

InitIds == InitOn(IdsProfile)

NextIds == NextOn(IdsProfile)

\* IDs, loaded collections, more tasks
SpecIds == InitIds /\ [][NextIds]_vars

InitFields == InitOn(FieldsProfile)

\* callers that add and update
NextFields ==
    \/ AddTask(FieldsProfile)
    \/ UpdateTask(FieldsProfile)

\* partial updates of every field
SpecFields == InitFields /\ [][NextFields]_vars

InitAdds == InitOn(AddsProfile)

NextAdds == AddTask(AddsProfile)

\* consecutive adds and nothing else
SpecAdds == InitAdds /\ [][NextAdds]_vars

InitClear == InitOn(ClearProfile)

NextClear ==
    \/ AddTask(ClearProfile)
    \/ UpdateTask(ClearProfile)
    \/ ClearCompleted

\* completing tasks and clearing the completed ones
SpecClear == InitClear /\ [][NextClear]_vars

InitFilter == InitOn(FilterProfile)

NextFilter ==
    \/ AddTask(FilterProfile)
    \/ UpdateTask(FilterProfile)
    \/ GetTasks(FilterProfile)
    \/ CallerPops

\* listing with and without a filter
SpecFilter == InitFilter /\ [][NextFilter]_vars

InitLoad == InitOn(LoadProfile)

\* there is a Manager to call: TodoManager.__init__ returned
Constructed == ~(op.name = "init" /\ op.error # "none")

NextLoad ==
    \/ Constructed /\ AddTask(LoadProfile)
    \/ Constructed /\ GetTask(LoadProfile)
    \/ Constructed /\ UpdateTask(LoadProfile)
    \/ Constructed /\ MarkCompleted(LoadProfile)
    \/ Constructed /\ DeleteTask(LoadProfile)

\* construction from legacy, hand-edited and damaged files
SpecLoad == InitLoad /\ [][NextLoad]_vars

-----------------------------------------------------------------------------
(* Two invocations at once: each process constructs its own Manager from   *)
(* DATA_FILE and runs one mutating call.  A call changes the process's     *)
(* list, then save_tasks opens the file (cutting it to nothing) and, in a  *)
(* later step, writes and closes it; nothing locks the file.               *)

Procs == {1, 2}

FilesRace ==
    {Absent, Json(<<>>),
     Json(<<Rec(Some(1), "a", "completed", Some(1))>>),
     Json(<<Rec(Some(1), "a", "pending", None), Rec(Some(2), "a", "in_progress", None)>>)}

InitRace ==
    /\ file \in FilesRace
    /\ tasks = <<>>
    /\ op = [name |-> "init", ret |-> TRUE, error |-> "none", save |-> "none"]
    /\ lastSaved = file
    /\ maxAssigned = 0
    /\ faults = 0
    /\ race = [pc |-> <<"start", "start">>, mem |-> << <<>>, <<>> >>, last |-> 0]

\* TodoManager.__init__ in process p
race_load(p) ==
    /\ race.pc[p] = "start"
    /\ race' = [race EXCEPT !.pc[p] = "loaded",
                            !.mem[p] = Manager(file, [i \in 1..Len(file.data) |-> 1])]
    /\ UNCHANGED file

\* the call has changed self.tasks to ts and save_tasks has opened the file
race_opens(p, ts) ==
    /\ race' = [race EXCEPT !.pc[p] = "opened", !.mem[p] = ts]
    /\ file' = opened_for_write(file)

\* add_task in process p, up to the open in save_tasks
race_add(p) ==
    /\ race.pc[p] = "loaded"
    /\ ~next_id_raises(race.mem[p])
    /\ race_opens(p, Append(race.mem[p],
                            Task("a", "", "MEDIUM", "PENDING", 1, None,
                                 Some(_get_next_id(race.mem[p])))))

\* delete_task of an existing ID in process p, up to the open in save_tasks
race_delete(p) ==
    /\ race.pc[p] = "loaded"
    /\ \E k \in 1..Len(race.mem[p]) :
         race_opens(p, RemoveAt(race.mem[p],
                                IndexOf(race.mem[p], Get(race.mem[p][k].task_id))))

\* update_task of the status of an existing ID in process p, up to the open
race_update(p) ==
    /\ race.pc[p] = "loaded"
    /\ \E k \in 1..Len(race.mem[p]), status \in {"PENDING", "COMPLETED"} :
         LET i == IndexOf(race.mem[p], Get(race.mem[p][k].task_id))
         IN  race_opens(p, [race.mem[p] EXCEPT
                              ![i] = apply_update(@, None, None, None, Some(status), 1)])

\* json.dump and the close of the file in process p: save_tasks returns
race_writes(p) ==
    /\ race.pc[p] = "opened"
    /\ file' = written_over(file, race.mem[p])
    /\ race' = [race EXCEPT !.pc[p] = "done", !.last = p]

RaceFrame == UNCHANGED <<tasks, op, lastSaved, maxAssigned, faults>>

NextRace ==
    \/ \E p \in Procs : race_load(p) /\ RaceFrame
    \/ \E p \in Procs : race_add(p) /\ RaceFrame
    \/ \E p \in Procs : race_delete(p) /\ RaceFrame
    \/ \E p \in Procs : race_update(p) /\ RaceFrame
    \/ \E p \in Procs : race_writes(p) /\ RaceFrame

\* two processes, one file
SpecRace == InitRace /\ [][NextRace]_vars

-----------------------------------------------------------------------------

InitIo == InitOn(IoProfile)

NextIo == NextOn(IoProfile)

\* saves that fail
SpecIo == InitIo /\ [][NextIo]_vars


-----------------------------------------------------------------------------
(* Properties                                                              *)

IdAt(ts, i) == Get(ts[i].task_id)

IdsIn(ts) == {IdAt(ts, i) : i \in 1..Len(ts)}

\* the Manager calls that change the collection
Mutators == {"add", "update", "mark_completed", "delete"}

\* C1: ID uniqueness.  Starting from an empty collection or from a loaded one
\* whose IDs are distinct positive integers, after any sequence of add,
\* update, mark_completed and delete every task has a positive ID and no two
\* tasks of the collection share an ID.
UniqueIds ==
    /\ \A i \in 1..Len(tasks) : tasks[i].task_id # None /\ IdAt(tasks, i) > 0
    /\ \A i, j \in 1..Len(tasks) : i # j => tasks[i].task_id # tasks[j].task_id

\* three tasks with distinct IDs: the loaded ones 3, 1 and an added one,
\* completed since
UniqueIdsWitness ==
    /\ op.name = "mark_completed"
    /\ Len(tasks) = 3
    /\ IdAt(tasks, 1) = 3
    /\ IdAt(tasks, 2) = 1
    /\ IdAt(tasks, 3) = 4
    /\ tasks[2].status = "PENDING"
    /\ tasks[3].status = "COMPLETED"

\* C2: ID assignment rule.  add returns a task whose ID is 1 when the
\* collection is empty and otherwise one more than the greatest ID in the
\* collection, in whatever order the tasks are stored.
AddAssignsMaxPlusOne ==
    [][(op'.name = "add" /\ op'.error = "none") =>
          IdAt(tasks', Len(tasks')) =
              IF Len(tasks) = 0 THEN 1 ELSE Max(IdsIn(tasks)) + 1]_vars

\* add on a loaded collection stored out of order, with a gap: 3, 1 yields 4
AddAssignsMaxPlusOneWitness ==
    /\ op.name = "add"
    /\ Len(tasks) = 3
    /\ IdAt(tasks, 1) = 3
    /\ IdAt(tasks, 2) = 1
    /\ op.ret.task_id = Some(4)
    /\ tasks[3] = op.ret

\* C5 as claimed: the ID each add assigns is greater than every ID an earlier
\* add assigned, so that no ID is assigned twice, even after a delete.
AddNeverReusesId ==
    [][(op'.name = "add" /\ op'.error = "none") =>
          Get(op'.ret.task_id) > maxAssigned]_vars

\* C5 as amended: the ID each add assigns is greater than every ID present in
\* the collection when add is called; the ID of a deleted task is assigned
\* again when no remaining task has an ID as great.
AddExceedsPresentIds ==
    [][(op'.name = "add" /\ op'.error = "none") =>
          \A i \in 1..Len(tasks) : Get(op'.ret.task_id) > IdAt(tasks, i)]_vars

\* an add that followed a delete of the greatest ID and assigned it again
AddExceedsPresentIdsWitness ==
    /\ op.name = "add"
    /\ Len(tasks) = 2
    /\ IdAt(tasks, 1) = 1
    /\ op.ret.task_id = Some(2)
    /\ maxAssigned = 3


\* C3: status/timestamp coupling.  In every state reached from an empty
\* collection, completed_at is present exactly in the tasks whose status is
\* completed.
CompletedAtIffCompleted ==
    \A i \in 1..Len(tasks) :
        (tasks[i].completed_at # None) <=> (tasks[i].status = "COMPLETED")

\* C4: title validation.  add with an empty title is rejected before any
\* mutation: the collection and the file stay as they were.
EmptyTitleRejected ==
    [][\A description \in IoProfile.descriptions, priority \in IoProfile.priorities,
          now \in IoProfile.times, io \in IoOutcomes :
            add_task("", description, priority, now, io) => UNCHANGED <<tasks, file>>]_vars

Failures == {"open_failed", "write_failed"}

\* C6: not-found is free of side effects.  For an ID that no task has, delete,
\* update (whatever fields it is given) and mark_completed return false,
\* get_by_id returns none, none of them saves, and the collection and the
\* file stay as they were.
NotFoundChangesNothing ==
    [][\A task_id \in Ids(IoProfile) \ IdsIn(tasks) :
          op'.name # "add" =>
            /\ (op'.name = "get" /\ get_task(task_id)) =>
                 (op'.ret = None /\ op'.save = "none" /\ UNCHANGED <<tasks, file>>)
            /\ \A io \in IoOutcomes :
                /\ (op'.name = "delete" /\ delete_task(task_id, io)) =>
                     (op'.ret = FALSE /\ op'.save = "none" /\ UNCHANGED <<tasks, file>>)
                /\ (op'.name = "mark_completed" /\ mark_completed(task_id, 1, io)) =>
                     (op'.ret = FALSE /\ op'.save = "none" /\ UNCHANGED <<tasks, file>>)
                /\ \A title \in IoProfile.new_titles :
                     (op'.name = "update"
                      /\ update_task(task_id, title, None, None, None, 1, io)) =>
                       (op'.ret = FALSE /\ op'.save = "none" /\ UNCHANGED <<tasks, file>>)]_vars

\* an update of an unknown ID while the file, after a failed save, is behind
\* the collection: it returned false and saved nothing
NotFoundChangesNothingWitness ==
    /\ op.name = "update"
    /\ op.ret = FALSE
    /\ op.save = "none"
    /\ Len(tasks) = 1
    /\ faults = 1
    /\ file = Absent

\* the collection load_tasks reads back from the file
Persisted == load_tasks(file, [i \in 1..Len(file.data) |-> 1])

\* C7: persistence after every mutation.  When add, or update,
\* mark_completed or delete of an existing ID, has returned and its save did
\* not fail, the file holds the in-memory collection: the same tasks in the
\* same order with the same fields, also after an update given no field.
SavedAfterMutation ==
    (/\ op.name \in Mutators
     /\ op.error = "none"
     /\ op.name = "add" \/ op.ret = TRUE
     /\ op.save \notin Failures)
        => (file.kind = "json" /\ Persisted = tasks)

\* an update that succeeded after an earlier save had failed
SavedAfterMutationWitness ==
    /\ op.name = "update"
    /\ op.ret = TRUE
    /\ op.save = "ok"
    /\ faults = 1
    /\ Len(tasks) = 2
    /\ Persisted = tasks

\* C8: atomic replace.  In every state, also after a save that failed, the
\* file holds what the last save that returned true wrote (or its initial
\* content): a failed save leaves it neither empty nor partly written.
FileIsLastSaved == file = lastSaved

\* C9: a save failure is swallowed.  When the save fails during add, update,
\* mark_completed or delete, save returns false, nothing is raised, the call
\* returns the new task or true, and the change stays in the collection.
SaveFailureSwallowed ==
    [][op'.save \in Failures =>
          /\ ~save_returns(op'.save)
          /\ op'.error = "none"
          /\ \A title \in IoProfile.titles :
               (op'.name = "add" /\ add_task(title, "", "MEDIUM", 1, op'.save)) =>
                 /\ op'.ret.title = title
                 /\ tasks' = Append(tasks, op'.ret)
          /\ \A task_id \in IdsIn(tasks) :
               /\ (op'.name = "delete" /\ delete_task(task_id, op'.save)) =>
                    (op'.ret = TRUE /\ task_id \notin IdsIn(tasks'))
               /\ (op'.name = "mark_completed" /\ mark_completed(task_id, 1, op'.save)) =>
                    /\ op'.ret = TRUE
                    /\ \E i \in 1..Len(tasks') :
                         IdAt(tasks', i) = task_id /\ tasks'[i].status = "COMPLETED"
               /\ \A title \in IoProfile.new_titles :
                    (op'.name = "update"
                     /\ update_task(task_id, title, None, None, None, 1, op'.save)) =>
                      /\ op'.ret = TRUE
                      /\ title # None =>
                           \E i \in 1..Len(tasks') :
                             IdAt(tasks', i) = task_id /\ tasks'[i].title = Get(title)]_vars

\* an update whose write failed: it returned true, the new title is in the
\* collection and the file no longer holds the collection
SaveFailureSwallowedWitness ==
    /\ op.name = "update"
    /\ op.save = "write_failed"
    /\ op.ret = TRUE
    /\ Len(tasks) = 1
    /\ tasks[1].title = "a"
    /\ lastSaved.kind = "json"
    /\ Len(lastSaved.data) = 1
    /\ lastSaved.data[1].title = Some("")
    /\ Persisted # tasks

\* C10: partial-update frame.  update of an existing ID sets, among title,
\* description, priority and status, the fields it is given and leaves the
\* others; it leaves the task's id and created_at, every other task, and the
\* number and order of the tasks.
UpdateFrame ==
    [][\A task_id \in IdsIn(tasks), title \in FieldsProfile.new_titles,
          description \in FieldsProfile.new_descriptions,
          priority \in FieldsProfile.new_priorities,
          status \in FieldsProfile.new_statuses :
            (op'.name = "update"
             /\ update_task(task_id, title, description, priority, status, 1, "ok")) =>
              LET i == IndexOf(tasks, task_id)
              IN  /\ Len(tasks') = Len(tasks)
                  /\ \A j \in 1..Len(tasks) : j # i => tasks'[j] = tasks[j]
                  /\ tasks'[i].task_id = tasks[i].task_id
                  /\ tasks'[i].created_at = tasks[i].created_at
                  /\ tasks'[i].title = IF title = None THEN tasks[i].title ELSE Get(title)
                  /\ tasks'[i].description =
                       IF description = None THEN tasks[i].description ELSE Get(description)
                  /\ tasks'[i].priority =
                       IF priority = None THEN tasks[i].priority ELSE Get(priority)
                  /\ tasks'[i].status =
                       IF status = None THEN tasks[i].status ELSE Get(status)]_vars

\* an update that was given a title and a priority: the description and the
\* status of that task and the other task are as add_task made them
UpdateFrameWitness ==
    /\ op.name = "update"
    /\ op.ret = TRUE
    /\ Len(tasks) = 2
    /\ tasks[2].title = "b"
    /\ tasks[2].priority = "HIGH"
    /\ tasks[2].description = ""
    /\ tasks[2].status = "PENDING"
    /\ tasks[1].title = "a"
    /\ tasks[1].priority = "MEDIUM"

\* C11: completion transitions.  update(id, status=completed) of an existing
\* task, whatever its status, leaves it completed with a completed_at that is
\* not null; update(id, status=in_progress), also right after that, leaves it
\* in progress with completed_at null.
CompletionTransitions ==
    [][op'.name = "update" =>
          \A task_id \in IdsIn(tasks) :
            LET i == IndexOf(tasks, task_id)
            IN  /\ \A now \in StatusProfile.times :
                     update_task(task_id, None, None, None, Some("COMPLETED"), now, "ok") =>
                       /\ tasks'[i].status = "COMPLETED"
                       /\ tasks'[i].completed_at # None
                /\ update_task(task_id, None, None, None, Some("IN_PROGRESS"), 1, "ok") =>
                     /\ tasks'[i].status = "IN_PROGRESS"
                     /\ tasks'[i].completed_at = None]_vars

\* an update to in progress has run on the second task (completed_at null)
\* while the first, completed at time 2, keeps its completion time
CompletionTransitionsWitness ==
    /\ op.name = "update"
    /\ op.ret = TRUE
    /\ Len(tasks) = 2
    /\ tasks[1].status = "COMPLETED"
    /\ tasks[1].completed_at = Some(2)
    /\ tasks[2].status = "IN_PROGRESS"
    /\ tasks[2].completed_at = None

\* C12: save/load round trip.  For every collection the Manager holds, empty,
\* of one task or more, with completed_at null or set, load_tasks of the file
\* a successful save_tasks writes is the collection: the same tasks in the
\* same order with the same seven fields, whatever the clock reads at load.
SaveLoadRoundTrip ==
    \A nows \in [1..Len(tasks) -> StatusProfile.times] :
        LET loaded == load_tasks(save_tasks(tasks, file, "ok"), nows)
        IN  /\ Len(loaded) = Len(tasks)
            /\ \A i \in 1..Len(tasks) :
                 /\ loaded[i].task_id = tasks[i].task_id
                 /\ loaded[i].title = tasks[i].title
                 /\ loaded[i].description = tasks[i].description
                 /\ loaded[i].priority = tasks[i].priority
                 /\ loaded[i].status = tasks[i].status
                 /\ loaded[i].created_at = tasks[i].created_at
                 /\ loaded[i].completed_at = tasks[i].completed_at

\* a saved collection of two tasks, one completed at time 2 and one in
\* progress without a completion time, which the file gives back
SaveLoadRoundTripWitness ==
    /\ op.save = "ok"
    /\ Len(tasks) = 2
    /\ tasks[1].status = "COMPLETED"
    /\ tasks[1].completed_at = Some(2)
    /\ tasks[2].status = "IN_PROGRESS"
    /\ tasks[2].completed_at = None
    /\ file = save_tasks(tasks, Absent, "ok")
    /\ load_tasks(file, <<2, 2>>) = tasks

\* what load_tasks returns for the file
Loaded == load_tasks(file, [i \in 1..Len(file.data) |-> 1])

\* C13: defensive load.  load never raises and returns the empty collection
\* when the file is missing, when it is unparseable and when a record is
\* malformed, so that the construction of the Manager always succeeds.
DefensiveLoad ==
    op.name = "init" =>
        /\ (file.kind # "json" \/ \E i \in 1..Len(file.data) : from_dict_raises(file.data[i]))
              => tasks = <<>>
        /\ op.error = "none"

\* positions of the loaded tasks that lack an ID
Lacking == {i \in 1..Len(Loaded) : Loaded[i].task_id = None}

\* C16: ID backfill at construction.  When the loaded collection has tasks
\* without an ID and its present IDs are pairwise distinct, then after
\* construction every task has an ID, the IDs are pairwise distinct, the IDs
\* that were present are unchanged and the tasks that lacked one got max+1,
\* max+2, ... in collection order, max being the greatest ID present (0 if
\* none).
BackfillAtConstruction ==
    LET present == (1..Len(Loaded)) \ Lacking
        max == Max({IdAt(Loaded, i) : i \in present} \cup {0})
    IN  (/\ op.name = "init"
         /\ op.error = "none"
         /\ Lacking # {}
         /\ \A i, j \in present : i # j => Loaded[i].task_id # Loaded[j].task_id)
            => /\ Len(tasks) = Len(Loaded)
               /\ \A i \in 1..Len(tasks) : tasks[i].task_id # None
               /\ \A i, j \in 1..Len(tasks) : i # j => tasks[i].task_id # tasks[j].task_id
               /\ \A i \in present : tasks[i].task_id = Loaded[i].task_id
               /\ \A i \in Lacking :
                    IdAt(tasks, i) = max + Cardinality({j \in Lacking : j <= i})

\* constructed from three records of which the first and the last lack an
\* ID and the second has 2: the IDs are 3, 2, 4
BackfillAtConstructionWitness ==
    /\ op.name = "init"
    /\ Len(Loaded) = 3
    /\ Lacking = {1, 3}
    /\ IdAt(tasks, 1) = 3
    /\ IdAt(tasks, 2) = 2
    /\ IdAt(tasks, 3) = 4

\* C14: filter semantics.  get_all with a status filter returns exactly the
\* tasks whose status is the filter, each once and in their relative order;
\* without a filter it returns all the tasks in collection order, as a copy;
\* the collection and the file stay as they were, also when the caller
\* changes the returned sequence.
FilterSemantics ==
    [][/\ \A status_filter \in FilterProfile.filters :
            (op'.name = "get_all" /\ get_tasks(status_filter)) =>
              /\ op'.ret.list =
                   IF status_filter = None THEN tasks
                   ELSE SelectSeq(tasks, LAMBDA t : t.status = Get(status_filter))
              /\ ~op'.ret.same_object
              /\ UNCHANGED <<tasks, file>>
       /\ (op'.name = "caller_pop" /\ caller_pops) => UNCHANGED <<tasks, file>>]_vars

\* the caller has emptied the list that get_all returned for three tasks,
\* pending, completed, pending; the collection still has the three
FilterSemanticsWitness ==
    /\ op.name = "caller_pop"
    /\ op.ret.list = <<>>
    /\ Len(tasks) = 3
    /\ tasks[1].status = "PENDING"
    /\ tasks[2].status = "COMPLETED"
    /\ tasks[3].status = "PENDING"
    /\ Persisted = tasks

\* C15: delete of an existing ID, in a collection with unique IDs, returns
\* true, removes exactly the task with that ID, leaves every other task as
\* it was and in the same relative order, and get_by_id of that ID then
\* returns none.
DeleteRemovesExactlyOne ==
    [][op'.name = "delete" =>
          \A task_id \in IdsIn(tasks) :
            delete_task(task_id, "ok") =>
              /\ op'.ret = TRUE
              /\ Len(tasks') = Len(tasks) - 1
              /\ tasks' = SelectSeq(tasks, LAMBDA t : t.task_id # Some(task_id))
              /\ get_task_by_id(tasks', task_id) = None]_vars

\* delete has taken the task with ID 1 from between those with IDs 3 and 4
DeleteRemovesExactlyOneWitness ==
    /\ op.name = "delete"
    /\ op.ret = TRUE
    /\ Len(tasks) = 2
    /\ IdAt(tasks, 1) = 3
    /\ IdAt(tasks, 2) = 4
    /\ tasks[1].status = "PENDING"
    /\ tasks[2].status = "IN_PROGRESS"
    /\ Persisted = tasks

\* C17: for every N, N consecutive add calls on an empty collection, with no
\* other call in between, assign the IDs 1, 2, ..., N in call order.
ConsecutiveAddsCountUp ==
    /\ \A i \in 1..Len(tasks) : tasks[i].task_id = Some(i)
    /\ op.name = "add" => (op.error = "none" /\ op.ret.task_id = Some(Len(tasks)))

\* as many adds as the model allows have run: the last one returned the ID
\* that is the number of adds
ConsecutiveAddsCountUpWitness ==
    /\ op.name = "add"
    /\ Len(tasks) = MaxTasks
    /\ op.ret.task_id = Some(MaxTasks)
    /\ tasks[1].task_id = Some(1)
    /\ tasks[MaxTasks] = op.ret

\* C18: the pending transition leaves the timestamp alone.
\* update(id, status=pending) of an existing task sets its status to pending
\* and leaves its completed_at as it was, null or not, whatever the status
\* the task had.
PendingKeepsCompletedAt ==
    [][op'.name = "update" =>
          \A task_id \in IdsIn(tasks) :
            update_task(task_id, None, None, None, Some("PENDING"), 1, "ok") =>
              LET i == IndexOf(tasks, task_id)
              IN  /\ tasks'[i].status = "PENDING"
                  /\ tasks'[i].completed_at = tasks[i].completed_at]_vars

\* two tasks set to pending by update: the first had been completed at time
\* 2 and keeps that time, the second never was and has none
PendingKeepsCompletedAtWitness ==
    /\ op.name = "update"
    /\ op.ret = TRUE
    /\ Len(tasks) = 2
    /\ tasks[1].status = "PENDING"
    /\ tasks[1].completed_at = Some(2)
    /\ tasks[2].status = "PENDING"
    /\ tasks[2].completed_at = None

\* C19: mark_completed(id) is update(id, status=completed).  From every state
\* and for every ID, present or not, mark_completed returns the flag update
\* would return and leaves the collection and the file update would leave,
\* the clock read at the same instant.
MarkCompletedIsUpdate ==
    [][op'.name = "mark_completed" =>
          \A task_id \in Ids(StatusProfile), now \in StatusProfile.times :
            mark_completed(task_id, now, "ok") =>
              LET i == IndexOf(tasks, task_id)
                  updated == [tasks EXCEPT ![i] =
                                apply_update(@, None, None, None, Some("COMPLETED"), now)]
              IN  IF i = 0
                  THEN op'.ret = FALSE /\ UNCHANGED <<tasks, file>>
                  ELSE /\ op'.ret = TRUE
                       /\ tasks' = updated
                       /\ file' = save_tasks(updated, file, "ok")
                       /\ Persisted' = updated]_vars

\* mark_completed at time 2 of the second of two tasks, the first in progress
MarkCompletedIsUpdateWitness ==
    /\ op.name = "mark_completed"
    /\ op.ret = TRUE
    /\ Len(tasks) = 2
    /\ tasks[1].status = "IN_PROGRESS"
    /\ tasks[2].status = "COMPLETED"
    /\ tasks[2].completed_at = Some(2)
    /\ Persisted = tasks

\* C20: last writer wins.  When two processes have each constructed a
\* Manager from the file and made one mutating call, then under every
\* interleaving of their loads and saves the file holds the in-memory
\* collection of the process whose save ran last.
LastWriterWins ==
    (race.pc = <<"done", "done">>) =>
        /\ file.kind = "json"
        /\ Persisted = race.mem[race.last]

\* positions of the completed tasks
CompletedIn(ts) == {i \in 1..Len(ts) : ts[i].status = "COMPLETED"}

\* C21: bulk clear of completed tasks.  When the clear command runs confirmed
\* on a collection with unique IDs it calls delete once per task that was
\* completed at the start; afterwards no completed task remains, every task
\* that was not completed is there, unchanged and in the same relative
\* order, and the deleted count reported is the number of completed tasks
\* found at the start.
ClearRemovesCompleted ==
    [][(/\ op'.name = "clear"
        /\ clear_completed(TRUE)
        /\ \A i, j \in 1..Len(tasks) : i # j => tasks[i].task_id # tasks[j].task_id)
          => /\ op'.ret.calls = Cardinality(CompletedIn(tasks))
             /\ op'.ret.found = Cardinality(CompletedIn(tasks))
             /\ CompletedIn(tasks') = {}
             /\ tasks' = SelectSeq(tasks, LAMBDA t : t.status # "COMPLETED")
             /\ CompletedIn(tasks) # {} =>
                  /\ op'.ret.deleted_count = Cardinality(CompletedIn(tasks))
                  /\ Persisted' = tasks']_vars

\* a confirmed clear has deleted the two completed tasks, IDs 3 and 4, from
\* around the pending task with ID 1, which is what the file holds
ClearRemovesCompletedWitness ==
    /\ op.name = "clear"
    /\ op.ret.confirmed
    /\ op.ret.deleted_count = 2
    /\ Len(tasks) = 1
    /\ tasks[1].task_id = Some(1)
    /\ tasks[1].status = "PENDING"
    /\ Persisted = tasks

\* C22: implicit ordering.  Starting from an empty collection, after any
\* sequence of add, update, mark_completed and delete the IDs are strictly
\* increasing along the collection: the last task has the greatest ID and
\* the tasks stand in the order they were created in.
IdsIncreaseAlongList ==
    /\ \A i, j \in 1..Len(tasks) : i < j => IdAt(tasks, i) < IdAt(tasks, j)
    /\ tasks # <<>> => IdAt(tasks, Len(tasks)) = Max(IdsIn(tasks))

\* an add after the task with ID 1 was deleted: the IDs are 2, 3
IdsIncreaseAlongListWitness ==
    /\ op.name = "add"
    /\ Len(tasks) = 2
    /\ IdAt(tasks, 1) = 2
    /\ IdAt(tasks, 2) = 3
    /\ tasks[1].status = "COMPLETED"

\* C23: one-directional timestamp invariant.  In every state reached from an
\* empty collection by add, update, mark_completed and delete, a completed
\* task has a completed_at that is not null and a task in progress has a
\* null one.
StatusImpliesCompletedAt ==
    \A i \in 1..Len(tasks) :
        /\ tasks[i].status = "COMPLETED" => tasks[i].completed_at # None
        /\ tasks[i].status = "IN_PROGRESS" => tasks[i].completed_at = None

\* mark_completed has run at time 2 on the second task while the first, set
\* back to pending, still has the completion time 1: the converse fails
StatusImpliesCompletedAtWitness ==
    /\ op.name = "mark_completed"
    /\ Len(tasks) = 2
    /\ tasks[1].status = "PENDING"
    /\ tasks[1].completed_at = Some(1)
    /\ tasks[2].status = "COMPLETED"
    /\ tasks[2].completed_at = Some(2)

====
